---- MODULE Spec2Model ----
(***************************************************************************)
(* Model of the Bloom filter of BloomFilterHW.py: class BloomFilter with   *)
(* its sizing formula (__bitsNeeded), constructor, insert, find,           *)
(* falsePositiveRate and numBitsSet.                                       *)
(*                                                                         *)
(* Floating-point numbers are modelled as fixed-point integers in units of *)
(* 1/Scale (sizing) and as exact fractions <<num, den>> (the projected     *)
(* false-positive rate).  The two collaborators that are imported and not  *)
(* part of the file, BitHash and BitVector, are modelled by their          *)
(* interface: BitHash as a deterministic function of (key, seed) drawn     *)
(* from a family of functions, BitVector as an array of bits of fixed      *)
(* size indexed from 0.                                                    *)
(***************************************************************************)
EXTENDS Integers, Sequences, FiniteSets, TLC

\* ------------------------------------------------------------------ bounds
\* Largest numKeys and numHashes handed to the constructor (0 is included:
\* both are used as divisors by the sizing formula).
MaxNumKeys == 3
MaxNumHashes == 3
\* BitHash values are 0 .. HashRange-1.
HashRange == 3
\* Fixed-point unit: the real number x is the integer x * Scale.
Scale == 10000

\* The keys handed to insert and find.
Keys == {"a", "b"}

\* The maxFalsePositive arguments handed to the constructor, fixed-point:
\* 0, 0.5, 0.9, 1.0 and 1.5.  0, 1.0 and 1.5 lie outside (0,1).
FalsePositiveValues ==
    {0, Scale \div 2, (9 * Scale) \div 10, Scale, (3 * Scale) \div 2}

VARIABLES
    numKeys,           \* self.__numKeys
    numHashes,         \* self.__numHashes
    maxFalsePositive,  \* self.__maxFalsePositive (fixed-point)
    hashSalt,          \* the function BitHash is, chosen once
    constructed,       \* whether __init__ returned an object
    bitVector,         \* self.__bitVector, a function 0..size-1 -> {0,1}
    numBitsSet,        \* self.__numBitsSet
    lastOp,            \* the most recent call
    lastKey,           \* its key argument, "" when it has none
    raised,            \* the exception the most recent call raised, or "none"
    ret,               \* what the most recent call returned
    inserted,          \* history: the keys whose insert has completed
    wasInserted        \* history: whether the most recent call's key was
                       \* in inserted when the call was made

vars == <<numKeys, numHashes, maxFalsePositive, hashSalt, constructed,
          bitVector, numBitsSet, lastOp, lastKey, raised, ret, inserted,
          wasInserted>>

\* ------------------------------------------------------- the collaborators

\* BitHash(key, seed): a deterministic non-negative integer.  salt gives each
\* key its own map of the seed.
BitHashWith(salt, key, seed) ==
    (salt[key].mult * seed + salt[key].add) % HashRange

BitHash(key, seed) == BitHashWith(hashSalt, key, seed)

HashSalts ==
    [Keys -> [mult : 0 .. HashRange - 1, add : 0 .. HashRange - 1]]

\* BitVector(size = n): n bits, all 0.
NewBitVector(size) == [i \in 0 .. size - 1 |-> 0]

\* len(bitVector)
Size(bv) == Cardinality(DOMAIN bv)

\* ------------------------------------------------ floating point, modelled

\* a * b on fixed-point numbers >= 0, rounded up to the next unit.
FMul(a, b) == (a * b + Scale - 1) \div Scale

\* r ** k for an integer k >= 0.
RECURSIVE FPow(_, _)
FPow(r, k) == IF k = 0 THEN Scale ELSE FMul(FPow(r, k - 1), r)

\* The largest r in lo..hi with r ** k <= x (FPow is monotonic in r).
RECURSIVE RootSearch(_, _, _, _)
RootSearch(lo, hi, x, k) ==
    IF lo >= hi THEN lo
    ELSE LET mid == (lo + hi + 1) \div 2
         IN  IF FPow(mid, k) <= x
             THEN RootSearch(mid, hi, x, k)
             ELSE RootSearch(lo, mid - 1, x, k)

\* x ** (1/k) for x >= 0 and an integer k >= 1.
Root(x, k) == RootSearch(0, IF x > Scale THEN x ELSE Scale, x, k)

\* ------------------------------------------------------------ __bitsNeeded

\* The mutant: the second root is taken over numHashes, not numKeys.
BitsNeededRootOfHashes(nk, nh, mfp) ==
    IF nh = 0 THEN [kind |-> "ZeroDivisionError", num |-> 0, den |-> 1]
    ELSE
    LET phi == Scale - Root(mfp, nh)
    IN  IF nk = 0 THEN [kind |-> "ZeroDivisionError", num |-> 0, den |-> 1]
        ELSE IF phi < 0 /\ nh # 1 THEN [kind |-> "complex", num |-> 0, den |-> 1]
        ELSE
        LET r == IF phi < 0 THEN phi ELSE Root(phi, nh)
        IN  IF Scale - r = 0
            THEN [kind |-> "ZeroDivisionError", num |-> 0, den |-> 1]
            ELSE [kind |-> "float", num |-> nh * Scale, den |-> Scale - r]

\* __bitsNeeded(numKeys, numHashes, maxFalsePositive):
\*     phi = 1 - maxFalsePositive**(1/numHashes)
\*     return numHashes/(1-(phi)**(1/numKeys))
\* The result is the fraction num/den, or the exception raised; a negative
\* phi raised to a power 1/numKeys that is not an integer is a complex number.
BitsNeeded(nk, nh, mfp) ==
    IF nh = 0 THEN [kind |-> "ZeroDivisionError", num |-> 0, den |-> 1]
    ELSE
    LET phi == Scale - Root(mfp, nh)
    IN  IF nk = 0 THEN [kind |-> "ZeroDivisionError", num |-> 0, den |-> 1]
        ELSE IF phi < 0 /\ nk # 1 THEN [kind |-> "complex", num |-> 0, den |-> 1]
        ELSE
        LET r == IF phi < 0 THEN phi ELSE Root(phi, nk)
        IN  IF Scale - r = 0
            THEN [kind |-> "ZeroDivisionError", num |-> 0, den |-> 1]
            ELSE [kind |-> "float", num |-> nh * Scale, den |-> Scale - r]

\* int(x) of the fraction num/den: truncation.  num >= 0 and den > 0 here, so
\* \div (which rounds down) truncates.
IntOf(x) == x.num \div x.den

NoRet == [found |-> FALSE, rounds |-> 0, num |-> 0, den |-> 1, count |-> 0]

\* __init__(numKeys, numHashes, maxFalsePositive): the state it leaves.
Construct(nk, nh, mfp) ==
    LET n == BitsNeeded(nk, nh, mfp)
    IN  [ok     |-> n.kind = "float",
         raised |-> IF n.kind = "float" THEN "none"
                    ELSE IF n.kind = "complex" THEN "TypeError"
                    ELSE n.kind,
         bits   |-> IF n.kind = "float" THEN NewBitVector(IntOf(n))
                    ELSE NewBitVector(0)]

Init ==
    /\ numKeys \in 0 .. MaxNumKeys
    /\ numHashes \in 0 .. MaxNumHashes
    /\ maxFalsePositive \in FalsePositiveValues
    /\ hashSalt \in HashSalts
    /\ LET c == Construct(numKeys, numHashes, maxFalsePositive)
       IN  /\ constructed = c.ok
           /\ raised = c.raised
           /\ bitVector = c.bits
    /\ numBitsSet = 0
    /\ lastOp = "new"
    /\ lastKey = ""
    /\ ret = NoRet
    /\ inserted = {}
    /\ wasInserted = FALSE

\* ------------------------------------------------------------------ insert

\* The mutant: the counter is incremented in every round.
InsertRoundAlwaysCounts(st, key) ==
    LET n   == BitHash(key, st.n)
        idx == n % Size(st.bits)
    IN  [n |-> n, bits |-> [st.bits EXCEPT ![idx] = 1], count |-> st.count + 1]

\* The mutant: the bit is flipped, not set.
InsertRoundToggles(st, key) ==
    LET n   == BitHash(key, st.n)
        idx == n % Size(st.bits)
    IN  [n     |-> n,
         bits  |-> [st.bits EXCEPT ![idx] = 1 - st.bits[idx]],
         count |-> IF st.bits[idx] = 0 THEN st.count + 1 ELSE st.count]

\* The mutant: the test of the bit is inverted.
InsertRoundCountsSetBits(st, key) ==
    LET n   == BitHash(key, st.n)
        idx == n % Size(st.bits)
    IN  [n     |-> n,
         bits  |-> [st.bits EXCEPT ![idx] = 1],
         count |-> IF st.bits[idx] = 1 THEN st.count + 1 ELSE st.count]

\* The mutant: the hash is not chained, every round hashes with seed 0.
InsertRoundUnchained(st, key) ==
    LET n   == BitHash(key, 0)
        idx == n % Size(st.bits)
    IN  [n     |-> n,
         bits  |-> [st.bits EXCEPT ![idx] = 1],
         count |-> IF st.bits[idx] = 0 THEN st.count + 1 ELSE st.count]

\* One round of insert's loop (the body of the for):
\*     n = BitHash(key, n)
\*     if bitVector[n % len] == 0: numBitsSet += 1
\*     bitVector[n % len] = 1
InsertRound(st, key) ==
    LET n   == BitHash(key, st.n)
        idx == n % Size(st.bits)
    IN  [n     |-> n,
         bits  |-> [st.bits EXCEPT ![idx] = 1],
         count |-> IF st.bits[idx] = 0 THEN st.count + 1 ELSE st.count]

\* for i in range(numHashes): rounds i, i+1, ..., nh-1.
RECURSIVE InsertLoop(_, _, _, _)
InsertLoop(i, nh, st, key) ==
    IF i >= nh THEN st ELSE InsertLoop(i + 1, nh, InsertRound(st, key), key)

\* insert(key) on the filter (bits, count) with nh hash rounds: n starts at 0.
InsertInto(bits, count, nh, key) ==
    InsertLoop(0, nh, [n |-> 0, bits |-> bits, count |-> count], key)

\* insert(key).  On an empty bit vector the first n % len raises
\* ZeroDivisionError before anything is written.
Insert(key) ==
    /\ constructed
    /\ lastOp' = "insert"
    /\ lastKey' = key
    /\ wasInserted' = (key \in inserted)
    /\ ret' = NoRet
    /\ IF Size(bitVector) = 0
       THEN /\ raised' = "ZeroDivisionError"
            /\ UNCHANGED <<bitVector, numBitsSet, inserted>>
       ELSE LET st == InsertInto(bitVector, numBitsSet, numHashes, key)
            IN  /\ raised' = "none"
                /\ bitVector' = st.bits
                /\ numBitsSet' = st.count
                /\ inserted' = inserted \cup {key}
    /\ UNCHANGED <<numKeys, numHashes, maxFalsePositive, hashSalt, constructed>>

\* -------------------------------------------------------------------- find

\* The mutant: every round hashes with seed 0, the hash is not chained.
FindRoundUnchained(st, key) ==
    LET n   == BitHash(key, 0)
        idx == n % Size(st.bits)
    IN  [st EXCEPT !.n = n, !.rounds = st.rounds + 1,
                   !.done = st.bits[idx] # 1,
                   !.found = st.bits[idx] = 1]

\* One round of find's loop:
\*     n = BitHash(key, n)
\*     if bitVector[n % len] != 1: return False
FindRound(st, key) ==
    LET n   == BitHash(key, st.n)
        idx == n % Size(st.bits)
    IN  [st EXCEPT !.n = n, !.rounds = st.rounds + 1,
                   !.done = st.bits[idx] # 1,
                   !.found = st.bits[idx] = 1]

\* for i in range(numHashes), left at the first return False; return True
\* after the loop.
RECURSIVE FindLoop(_, _, _, _)
FindLoop(i, nh, st, key) ==
    IF i >= nh \/ st.done THEN st
    ELSE FindLoop(i + 1, nh, FindRound(st, key), key)

\* find(key) on the bit vector bits with nh hash rounds: what it returns, and
\* the number of rounds it ran.
FindIn(bits, nh, key) ==
    LET st == FindLoop(0, nh,
                  [n |-> 0, bits |-> bits, rounds |-> 0, done |-> FALSE,
                   found |-> TRUE], key)
    IN  [found |-> st.found, rounds |-> st.rounds]

\* find(key)
Find(key) ==
    /\ constructed
    /\ lastOp' = "find"
    /\ lastKey' = key
    /\ wasInserted' = (key \in inserted)
    /\ IF Size(bitVector) = 0
       THEN /\ raised' = "ZeroDivisionError"
            /\ ret' = NoRet
       ELSE LET r == FindIn(bitVector, numHashes, key)
            IN  /\ raised' = "none"
                /\ ret' = [NoRet EXCEPT !.found = r.found, !.rounds = r.rounds]
    /\ UNCHANGED <<numKeys, numHashes, maxFalsePositive, hashSalt, constructed,
                   bitVector, numBitsSet, inserted>>

\* ------------------------------------------------------- falsePositiveRate

\* b ** k for integers.
RECURSIVE IntPow(_, _)
IntPow(b, k) == IF k = 0 THEN 1 ELSE b * IntPow(b, k - 1)

\* The mutant: the proportion of zero bits is raised to the power.
RateOfZeroBits(size, count, nh) ==
    LET phi == [num |-> size - count, den |-> size]
    IN  [num |-> IntPow(phi.num, nh), den |-> IntPow(phi.den, nh)]

\* The mutant: 1 - phi is multiplied by numHashes.
RateTimesHashes(size, count, nh) ==
    LET phi == [num |-> size - count, den |-> size]
    IN  [num |-> (phi.den - phi.num) * nh, den |-> phi.den]

\*     phi = (len(bitVector) - numBitsSet)/len(bitVector)
\*     return (1 - phi)**numHashes
\* as exact fractions; size > 0.
Rate(size, count, nh) ==
    LET phi == [num |-> size - count, den |-> size]
    IN  [num |-> IntPow(phi.den - phi.num, nh), den |-> IntPow(phi.den, nh)]

\* falsePositiveRate()
FalsePositiveRate ==
    /\ constructed
    /\ lastOp' = "falsePositiveRate"
    /\ lastKey' = ""
    /\ wasInserted' = FALSE
    /\ IF Size(bitVector) = 0
       THEN /\ raised' = "ZeroDivisionError"
            /\ ret' = NoRet
       ELSE LET r == Rate(Size(bitVector), numBitsSet, numHashes)
            IN  /\ raised' = "none"
                /\ ret' = [NoRet EXCEPT !.num = r.num, !.den = r.den]
    /\ UNCHANGED <<numKeys, numHashes, maxFalsePositive, hashSalt, constructed,
                   bitVector, numBitsSet, inserted>>

\* -------------------------------------------------------------- numBitsSet

\* numBitsSet()
NumBitsSet ==
    /\ constructed
    /\ lastOp' = "numBitsSet"
    /\ lastKey' = ""
    /\ wasInserted' = FALSE
    /\ raised' = "none"
    /\ ret' = [NoRet EXCEPT !.count = numBitsSet]
    /\ UNCHANGED <<numKeys, numHashes, maxFalsePositive, hashSalt, constructed,
                   bitVector, numBitsSet, inserted>>

Next ==
    \/ \E key \in Keys : Insert(key)
    \/ \E key \in Keys : Find(key)
    \/ FalsePositiveRate
    \/ NumBitsSet

Spec == Init /\ [][Next]_vars

\* ------------------------------------------------------------ the claims

\* The 1-bits of a bit vector.
OneBits(bv) == {i \in DOMAIN bv : bv[i] = 1}

\* The index insert(key) writes in round j (1 .. numHashes), read off insert's
\* own loop after j rounds.
InsertIndex(key, j) ==
    InsertLoop(0, j, [n |-> 0, bits |-> bitVector, count |-> 0], key).n
        % Size(bitVector)

\* The constructor's preconditions as the specification states them.
ValidParameters ==
    /\ numKeys > 0
    /\ numHashes > 0
    /\ 0 < maxFalsePositive
    /\ maxFalsePositive < Scale

\* a <= b on fractions with positive denominators.
FracLeq(a, b) == a.num * b.den <= b.num * a.den

\* C1: no false negatives.  A find of a key whose insert completed earlier
\* returns True (and does not raise), and in every state find would return
\* True for every key inserted so far, whatever else was inserted or queried.
C1_NoFalseNegatives ==
    /\ (lastOp = "find" /\ wasInserted) => (raised = "none" /\ ret.found)
    /\ \A k \in inserted : FindIn(bitVector, numHashes, k).found

\* C1 witness: a find of an inserted key returned True after both keys were
\* inserted into a vector of at least two bits that is now full.
C1_Witness ==
    /\ lastOp = "find" /\ wasInserted /\ ret.found
    /\ inserted = Keys
    /\ Size(bitVector) >= 2
    /\ numBitsSet = Size(bitVector)

\* C2: counter accuracy.  In every state of a constructed filter numBitsSet
\* is the number of 1-bits of the bit vector, and numBitsSet() returns it.
C2_CounterAccuracy ==
    constructed =>
        /\ numBitsSet = Cardinality(OneBits(bitVector))
        /\ (lastOp = "numBitsSet" => ret.count = Cardinality(OneBits(bitVector)))

\* C2 witness: a key was inserted again, its rounds hit fewer distinct
\* indices than there are rounds (two rounds share an index), and the vector
\* is not full.
C2_Witness ==
    /\ lastOp = "insert" /\ wasInserted /\ raised = "none"
    /\ numHashes >= 2
    /\ Cardinality({InsertIndex(lastKey, j) : j \in 1 .. numHashes}) < numHashes
    /\ 0 < numBitsSet /\ numBitsSet < Size(bitVector)

\* C3 as stated: the constructor fails, and constructs no filter, whenever
\* numKeys <= 0, numHashes <= 0 or maxFalsePositive is not strictly between 0
\* and 1 (any exception is taken for the failure the claim names).
C3_ConstructorValidates ==
    (lastOp = "new" /\ ~ValidParameters) =>
        (~constructed /\ raised # "none")

\* C4 as stated: a constructed filter has a bit vector of length >= 1 and none
\* of its methods raises.
C4_TotalAfterConstruction ==
    constructed => (Size(bitVector) >= 1 /\ raised = "none")

\* C5: insert is idempotent.  Inserting a key that was inserted before changes
\* neither the bit vector nor the counter, and in every state two inserts of a
\* key give what one gives.
C5_InsertIdempotent ==
    [][ /\ (lastOp' = "insert" /\ wasInserted') =>
               (bitVector' = bitVector /\ numBitsSet' = numBitsSet)
        /\ (constructed /\ Size(bitVector) > 0) =>
               \A k \in Keys :
                   LET once == InsertInto(bitVector, numBitsSet, numHashes, k)
                       twice == InsertInto(once.bits, once.count, numHashes, k)
                   IN  twice.bits = once.bits /\ twice.count = once.count
      ]_vars

\* C5 witness: a key was inserted again into a filter that holds both keys.
C5_Witness ==
    /\ lastOp = "insert" /\ wasInserted /\ raised = "none"
    /\ inserted = Keys
    /\ numBitsSet >= 2

\* C6: the projected false-positive rate never decreases.  Over every step
\* the rate of the new state is at least the rate of the old one, it is
\* unchanged by find, falsePositiveRate and numBitsSet, and a returned rate is
\* at least the rate of any earlier state.
C6_RateMonotonic ==
    [][ (constructed /\ Size(bitVector) > 0) =>
            LET before == Rate(Size(bitVector), numBitsSet, numHashes)
                after  == Rate(Size(bitVector'), numBitsSet', numHashes')
            IN  /\ FracLeq(before, after)
                /\ lastOp' # "insert" => (FracLeq(after, before))
                /\ lastOp' = "falsePositiveRate" =>
                       FracLeq(before, [num |-> ret'.num, den |-> ret'.den])
      ]_vars

\* C6 witness: falsePositiveRate returned a rate strictly between 0 and 1 with
\* both keys inserted.
C6_Witness ==
    /\ lastOp = "falsePositiveRate" /\ raised = "none"
    /\ inserted = Keys
    /\ 0 < ret.num /\ ret.num < ret.den

\* C7: falsePositiveRate returns (numBitsSet / length) ^ numHashes, a value in
\* [0,1], 0 on a filter nothing was inserted into, 1 exactly when every bit
\* is set.
C7_RateValue ==
    (lastOp = "falsePositiveRate" /\ raised = "none") =>
        /\ ret.den > 0
        /\ ret.num * IntPow(Size(bitVector), numHashes)
               = ret.den * IntPow(numBitsSet, numHashes)
        /\ 0 <= ret.num /\ ret.num <= ret.den
        /\ inserted = {} => ret.num = 0
        /\ ret.num = ret.den <=> \A i \in DOMAIN bitVector : bitVector[i] = 1

\* C7 witness: falsePositiveRate returned 1 on a full vector of at least two
\* bits with at least two hash rounds.
C7_Witness ==
    /\ lastOp = "falsePositiveRate" /\ raised = "none"
    /\ ret.num = ret.den
    /\ Size(bitVector) >= 2
    /\ numHashes >= 2

\* C8 as stated: the length is the truncation of
\* numHashes / (1 - phi^(1/numHashes)), phi = 1 - maxFalsePositive^(1/numHashes),
\* and does not depend on numKeys.
C8_SizingByHashesOnly ==
    (constructed /\ ValidParameters) =>
        Size(bitVector) =
            (numHashes * Scale)
                \div (Scale - Root(Scale - Root(maxFalsePositive, numHashes),
                                   numHashes))

\* C8 amended: the length is the truncation of
\* numHashes / (1 - phi^(1/numKeys)), phi = 1 - maxFalsePositive^(1/numHashes):
\* it is a function of numKeys, numHashes and maxFalsePositive alone.
C8_SizingByKeys ==
    (constructed /\ ValidParameters) =>
        Size(bitVector) =
            (numHashes * Scale)
                \div (Scale - Root(Scale - Root(maxFalsePositive, numHashes),
                                   numKeys))

\* C8 witness: a filter built from valid parameters with numKeys # numHashes
\* whose length differs from the one the formula over numHashes gives.
C8_Witness ==
    /\ constructed /\ ValidParameters
    /\ numKeys # numHashes
    /\ Size(bitVector) #
           (numHashes * Scale)
               \div (Scale - Root(Scale - Root(maxFalsePositive, numHashes),
                                  numHashes))

\* C9: find reads the indices insert writes.  find(key) returns True exactly
\* when the bit at every index insert(key) writes is 1, it stops at the first
\* round whose bit is 0, and it returns False on a filter with no bit set.
C9_FindReadsInsertIndices ==
    (lastOp = "find" /\ raised = "none") =>
        LET zeroRounds ==
                {j \in 1 .. numHashes : bitVector[InsertIndex(lastKey, j)] = 0}
        IN  /\ ret.found = (zeroRounds = {})
            /\ ret.found =
                   (OneBits(InsertInto(NewBitVector(Size(bitVector)), 0,
                                       numHashes, lastKey).bits)
                        \subseteq OneBits(bitVector))
            /\ zeroRounds = {} => ret.rounds = numHashes
            /\ zeroRounds # {} =>
                   /\ ret.rounds \in zeroRounds
                   /\ \A j \in zeroRounds : ret.rounds <= j
            /\ numBitsSet = 0 => ~ret.found

\* C9 witness: find returned False at its second round, before its last, the
\* first bit it read being 1.
C9_Witness ==
    /\ lastOp = "find" /\ raised = "none"
    /\ ~ret.found
    /\ ret.rounds = 2
    /\ numHashes > 2

\* C10: monotonic fill.  Over every step the bit vector keeps its length, no
\* bit goes from 1 to 0, the counter does not decrease, and only insert
\* changes either; in every state 0 <= numBitsSet <= length.
C10_MonotonicFill ==
    /\ [](0 <= numBitsSet /\ numBitsSet <= Size(bitVector))
    /\ [][ /\ DOMAIN bitVector' = DOMAIN bitVector
           /\ \A i \in DOMAIN bitVector : bitVector[i] = 1 => bitVector'[i] = 1
           /\ numBitsSet' >= numBitsSet
           /\ lastOp' # "insert" =>
                  (bitVector' = bitVector /\ numBitsSet' = numBitsSet)
         ]_vars

\* C10 witness: a find on a filter holding both keys, some bits set and some
\* not.
C10_Witness ==
    /\ lastOp = "find" /\ raised = "none"
    /\ inserted = Keys
    /\ 1 < numBitsSet /\ numBitsSet < Size(bitVector)

====
